---- MODULE Spec2Model ----
(***************************************************************************)
(* Model of src/domain/recipe.rs: the five value objects (RecipeId,        *)
(* RecipeName, RecipeTags, RecipeIngredients, RecipeInstructions), their   *)
(* TryFrom smart constructors, the Recipe aggregate with Recipe::new and   *)
(* its accessors, and what the derives and the pub fields of Recipe give   *)
(* to a caller (Deserialize, Clone, assignment to published_at).           *)
(*                                                                         *)
(* Rust values are modelled as follows.                                    *)
(*   Option<T>      None is << >>, Some(x) is <<x>>                        *)
(*   Result<T, E>   [ok |-> TRUE, val |-> x] or [ok |-> FALSE, err |-> e]  *)
(*   String         a TLA+ string; is_empty() is equality with ""          *)
(*   Vec<String>    a sequence of strings; is_empty() is Len = 0           *)
(*   struct X(T)    the record [f0 |-> x] (the tuple field .0)             *)
(*   DateTime       a natural number, the reading of the clock             *)
(***************************************************************************)
EXTENDS Naturals, Sequences, FiniteSets

VARIABLES
    pc,       \* pc[c]: where caller c's call of Recipe::new stands
    input,    \* input[c]: the caller's own copy of the arguments it passed
    frame,    \* frame[c]: parameters and locals of the running Recipe::new
    reads,    \* reads[c]: the clock readings the running call has made
    result,   \* result[c]: what Recipe::new returned to caller c
    owned,    \* owned[c]: the Recipe value caller c owns
    origin,   \* origin[c]: how the owned Recipe was obtained
    view,     \* view[c]: the outstanding shared borrow an accessor returned
    now       \* the clock behind Local::now()

vars == <<pc, input, frame, reads, result, owned, origin, view, now>>

----------------------------------------------------------------------------
(* Bounds and input domains *)

MaxLen == 2
MaxClock == 1

Callers == {"c1", "c2"}
Solo == {"c1"}

Ids == {"", "10"}
Names == {"", "Oregano Marinated Chicken"}
Elems == {"", "main"}

RECURSIVE VecsUpTo(_)
VecsUpTo(n) ==
    IF n = 0 THEN {<< >>}
    ELSE LET shorter == VecsUpTo(n - 1)
         IN  shorter \cup
             {Append(v, e) : v \in {w \in shorter : Len(w) = n - 1}, e \in Elems}

Vecs == VecsUpTo(MaxLen)

Args == [id : Ids, name : Names, tags : Vecs, ingredients : Vecs,
         instructions : Vecs]

\* The arguments the concurrent callers draw from: every field empty or not.
ParVecs == {<< >>, <<"main">>}
ParArgs == [id : Ids, name : Names, tags : ParVecs, ingredients : ParVecs,
            instructions : ParVecs]

----------------------------------------------------------------------------
(* Option and Result *)

None == << >>
Some(x) == <<x>>

Ok(x) == [ok |-> TRUE, val |-> x]
Err(e) == [ok |-> FALSE, err |-> e]

\* The `?` of Recipe::new converts the &'static str of a try_from into the
\* String of its own error type with From<&str> for String: the same text.
String_from(s) == s

----------------------------------------------------------------------------
(* Value objects *)

RecipeId(x) == [f0 |-> x]
RecipeId_value(self) == self.f0
\* A RecipeId::try_from that takes the empty string for an error.
RecipeId_try_from_RejectsEmpty(id) ==
    IF id = "" THEN Err("A receita precisa ter um id")
    ELSE Ok(RecipeId(Some(id)))

RecipeId_try_from(id) ==
    IF id = "" THEN Ok(RecipeId(None)) ELSE Ok(RecipeId(Some(id)))

RecipeName(x) == [f0 |-> x]
RecipeName_value(self) == self.f0
RecipeName_try_from(value) ==
    IF value = "" THEN Err("A receita precisa ter um nome")
    ELSE Ok(RecipeName(value))

RecipeTags(x) == [f0 |-> x]
RecipeTags_value(self) == self.f0
\* A RecipeTags::try_from that stores the tags last to first.
RecipeTags_try_from_Reversed(value) ==
    IF Len(value) = 0 THEN Err("A receita precisa pelo menos de uma tag")
    ELSE Ok(RecipeTags([i \in 1..Len(value) |-> value[Len(value) + 1 - i]]))

RecipeTags_try_from(value) ==
    IF Len(value) = 0 THEN Err("A receita precisa pelo menos de uma tag")
    ELSE Ok(RecipeTags(value))

RecipeIngredients(x) == [f0 |-> x]
RecipeIngredients_value(self) == self.f0
\* A RecipeIngredients::try_from that fails with the message of the tags.
RecipeIngredients_try_from_TagMessage(value) ==
    IF Len(value) = 0 THEN Err("A receita precisa pelo menos de uma tag")
    ELSE Ok(RecipeIngredients(value))

RecipeIngredients_try_from(value) ==
    IF Len(value) = 0
    THEN Err("A receita precisa pelo menos de um ingrediente")
    ELSE Ok(RecipeIngredients(value))

RecipeInstructions(x) == [f0 |-> x]
RecipeInstructions_value(self) == self.f0
\* A RecipeInstructions::try_from that also refuses an empty instruction.
RecipeInstructions_try_from_RejectsBlank(value) ==
    IF Len(value) = 0 \/ \E i \in 1..Len(value) : value[i] = ""
    THEN Err("A receita precisa pelo menos de uma instrução")
    ELSE Ok(RecipeInstructions(value))

RecipeInstructions_try_from(value) ==
    IF Len(value) = 0
    THEN Err("A receita precisa pelo menos de uma instrução")
    ELSE Ok(RecipeInstructions(value))

----------------------------------------------------------------------------
(* The Recipe aggregate *)

Recipe(id, name, tags, ingredients, instructions, published_at) ==
    [id |-> id, name |-> name, tags |-> tags, ingredients |-> ingredients,
     instructions |-> instructions, published_at |-> published_at]

\* Recipe::new as a function of its arguments and of the clock reading t it
\* makes when every validation has succeeded; each `?` returns the first error.
Recipe_new(id, name, tags, ingredients, instructions, t) ==
    LET r_id == RecipeId_try_from(id)
        r_name == RecipeName_try_from(name)
        r_tags == RecipeTags_try_from(tags)
        r_ingredients == RecipeIngredients_try_from(ingredients)
        r_instructions == RecipeInstructions_try_from(instructions)
    IN  IF ~r_id.ok THEN Err(String_from(r_id.err))
        ELSE IF ~r_name.ok THEN Err(String_from(r_name.err))
        ELSE IF ~r_tags.ok THEN Err(String_from(r_tags.err))
        ELSE IF ~r_ingredients.ok THEN Err(String_from(r_ingredients.err))
        ELSE IF ~r_instructions.ok THEN Err(String_from(r_instructions.err))
        ELSE Ok(Recipe(r_id.val, r_name.val, r_tags.val, r_ingredients.val,
                       r_instructions.val, Some(t)))

\* The accessors take &self: each returns the field and leaves self as it is.
\* [self |-> the Recipe after the call, ret |-> the value object returned].
Recipe_id(self) == [self |-> self, ret |-> self.id]
Recipe_name(self) == [self |-> self, ret |-> self.name]

\* A tags() that takes the tags out of the Recipe (std::mem::take).
Recipe_tags_Take(self) ==
    [self |-> [self EXCEPT !.tags = RecipeTags(<< >>)], ret |-> self.tags]

Recipe_tags(self) == [self |-> self, ret |-> self.tags]
Recipe_ingredients(self) == [self |-> self, ret |-> self.ingredients]
Recipe_instructions(self) == [self |-> self, ret |-> self.instructions]

Fields == {"id", "name", "tags", "ingredients", "instructions"}

\* recipe.f() for the accessor named f.
Accessor(self, f) ==
    CASE f = "id" -> Recipe_id(self)
      [] f = "name" -> Recipe_name(self)
      [] f = "tags" -> Recipe_tags(self)
      [] f = "ingredients" -> Recipe_ingredients(self)
      [] f = "instructions" -> Recipe_instructions(self)

\* obj.value() for the value object obj of field f.
Value(obj, f) ==
    CASE f = "id" -> RecipeId_value(obj)
      [] f = "name" -> RecipeName_value(obj)
      [] f = "tags" -> RecipeTags_value(obj)
      [] f = "ingredients" -> RecipeIngredients_value(obj)
      [] f = "instructions" -> RecipeInstructions_value(obj)

\* #[derive(Clone)]: a field by field copy.
Recipe_clone(self) ==
    Recipe(self.id, self.name, self.tags, self.ingredients, self.instructions,
           self.published_at)

\* #[derive(Deserialize)] on Recipe and on the five newtypes: every field is
\* read from the document and wrapped as it is; no try_from is called.
Recipe_deserialize(doc) ==
    Recipe(RecipeId(doc.id), RecipeName(doc.name), RecipeTags(doc.tags),
           RecipeIngredients(doc.ingredients),
           RecipeInstructions(doc.instructions), doc.published_at)

Stamps == {None} \cup {Some(t) : t \in 0..MaxClock}
DocVecs == {v \in Vecs : Len(v) <= 1}
Docs == [id : {None} \cup {Some(i) : i \in Ids}, name : Names, tags : DocVecs,
         ingredients : DocVecs, instructions : DocVecs, published_at : Stamps]

----------------------------------------------------------------------------
(* State machine *)

Init ==
    /\ pc = [c \in Callers |-> "idle"]
    /\ input = [c \in Callers |-> None]
    /\ frame = [c \in Callers |-> None]
    /\ reads = [c \in Callers |-> << >>]
    /\ result = [c \in Callers |-> None]
    /\ owned = [c \in Callers |-> None]
    /\ origin = [c \in Callers |-> "none"]
    /\ view = [c \in Callers |-> None]
    /\ now = 0

\* Time passes.
Tick ==
    /\ now < MaxClock
    /\ now' = now + 1
    /\ UNCHANGED <<pc, input, frame, reads, result, owned, origin, view>>

\* Local::now()
Local_now == now

\* Caller c calls Recipe::new(a.id, a.name, a.tags, a.ingredients,
\* a.instructions) with some arguments a of the set from: the arguments move
\* into the parameters.
\* A Recipe::new that reads the clock as it starts, before any validation.
Call_ReadsClock(c, from) ==
    /\ pc[c] = "idle"
    /\ owned[c] = None
    /\ \E a \in from :
        /\ input' = [input EXCEPT ![c] = Some(a)]
        /\ frame' = [frame EXCEPT ![c] = Some(
               [id |-> Some(a.id), name |-> Some(a.name),
                tags |-> Some(a.tags), ingredients |-> Some(a.ingredients),
                instructions |-> Some(a.instructions),
                recipe_id |-> None, recipe_name |-> None,
                recipe_tags |-> None, recipe_ingredients |-> None,
                recipe_instructions |-> None])]
    /\ pc' = [pc EXCEPT ![c] = "id"]
    /\ reads' = [reads EXCEPT ![c] = <<Local_now>>]
    /\ UNCHANGED <<result, owned, origin, view, now>>

Call(c, from) ==
    /\ pc[c] = "idle"
    /\ owned[c] = None
    /\ \E a \in from :
        /\ input' = [input EXCEPT ![c] = Some(a)]
        /\ frame' = [frame EXCEPT ![c] = Some(
               [id |-> Some(a.id), name |-> Some(a.name),
                tags |-> Some(a.tags), ingredients |-> Some(a.ingredients),
                instructions |-> Some(a.instructions),
                recipe_id |-> None, recipe_name |-> None,
                recipe_tags |-> None, recipe_ingredients |-> None,
                recipe_instructions |-> None])]
    /\ pc' = [pc EXCEPT ![c] = "id"]
    /\ reads' = [reads EXCEPT ![c] = << >>]
    /\ UNCHANGED <<result, owned, origin, view, now>>

\* `let local = r?;` where r was made from parameter param: on Ok the value
\* is bound and the call goes on at next; on Err the function returns
\* Err(From::from(e)) and every parameter and local of the frame is dropped.
Question(c, r, param, local, next) ==
    IF r.ok
    THEN /\ frame' = [frame EXCEPT ![c] = Some(
                [frame[c][1] EXCEPT ![param] = None, ![local] = Some(r.val)])]
         /\ pc' = [pc EXCEPT ![c] = next]
         /\ UNCHANGED <<input, reads, result, owned, origin, view, now>>
    ELSE /\ result' = [result EXCEPT ![c] = Some(Err(String_from(r.err)))]
         /\ frame' = [frame EXCEPT ![c] = None]
         /\ pc' = [pc EXCEPT ![c] = "returned"]
         /\ UNCHANGED <<input, reads, owned, origin, view, now>>

\* A Recipe::new that goes from the identifier to the tags: the name is not
\* validated.
ValidateId_SkipsName(c) ==
    /\ pc[c] = "id"
    /\ Question(c, RecipeId_try_from(frame[c][1].id[1]), "id", "recipe_id",
                "tags")

ValidateId(c) ==
    /\ pc[c] = "id"
    /\ Question(c, RecipeId_try_from(frame[c][1].id[1]), "id", "recipe_id",
                "name")

\* A RecipeName validation that works on a buffer all running calls share: it
\* may see the name another call has put there.
ValidateName_Shared(c) ==
    /\ pc[c] = "name"
    /\ \E d \in Callers :
        /\ frame[d] # None
        /\ frame[d][1].name # None
        /\ Question(c, RecipeName_try_from(frame[d][1].name[1]), "name",
                    "recipe_name", "tags")

ValidateName(c) ==
    /\ pc[c] = "name"
    /\ Question(c, RecipeName_try_from(frame[c][1].name[1]), "name",
                "recipe_name", "tags")

ValidateTags(c) ==
    /\ pc[c] = "tags"
    /\ Question(c, RecipeTags_try_from(frame[c][1].tags[1]), "tags",
                "recipe_tags", "ingredients")

ValidateIngredients(c) ==
    /\ pc[c] = "ingredients"
    /\ Question(c, RecipeIngredients_try_from(frame[c][1].ingredients[1]),
                "ingredients", "recipe_ingredients", "instructions")

ValidateInstructions(c) ==
    /\ pc[c] = "instructions"
    /\ Question(c, RecipeInstructions_try_from(frame[c][1].instructions[1]),
                "instructions", "recipe_instructions", "build")

\* Ok(Recipe { ..., published_at: Some(Local::now()) }): the locals move into
\* the Recipe, the clock is read, the Recipe is returned.
Build(c) ==
    /\ pc[c] = "build"
    /\ LET f == frame[c][1]
           t == Local_now
       IN  /\ result' = [result EXCEPT ![c] = Some(Ok(
                  Recipe(f.recipe_id[1], f.recipe_name[1], f.recipe_tags[1],
                         f.recipe_ingredients[1], f.recipe_instructions[1],
                         Some(t))))]
           /\ reads' = [reads EXCEPT ![c] = Append(reads[c], t)]
    /\ frame' = [frame EXCEPT ![c] = None]
    /\ pc' = [pc EXCEPT ![c] = "returned"]
    /\ UNCHANGED <<input, owned, origin, view, now>>

\* The caller takes the Recipe out of an Ok result (.unwrap()).
Unwrap(c) ==
    /\ pc[c] = "returned"
    /\ result[c][1].ok
    /\ owned' = [owned EXCEPT ![c] = Some(result[c][1].val)]
    /\ origin' = [origin EXCEPT ![c] = "new"]
    /\ result' = [result EXCEPT ![c] = None]
    /\ input' = [input EXCEPT ![c] = None]
    /\ reads' = [reads EXCEPT ![c] = << >>]
    /\ pc' = [pc EXCEPT ![c] = "idle"]
    /\ UNCHANGED <<frame, view, now>>

\* The caller drops the result, Ok or Err.
Discard(c) ==
    /\ pc[c] = "returned"
    /\ result' = [result EXCEPT ![c] = None]
    /\ input' = [input EXCEPT ![c] = None]
    /\ reads' = [reads EXCEPT ![c] = << >>]
    /\ pc' = [pc EXCEPT ![c] = "idle"]
    /\ UNCHANGED <<frame, owned, origin, view, now>>

\* The owner calls some accessor f and then value() on what it returned, and keeps
\* the shared borrow.
Read(c) ==
    /\ pc[c] = "idle"
    /\ owned[c] # None
    /\ \E f \in Fields :
        LET got == Accessor(owned[c][1], f)
        IN  /\ owned' = [owned EXCEPT ![c] = Some(got.self)]
            /\ view' = [view EXCEPT ![c] = Some(
                   [field |-> f, obj |-> got.ret, val |-> Value(got.ret, f)])]
    /\ UNCHANGED <<pc, input, frame, reads, result, origin, now>>

\* The borrow ends.
Release(c) ==
    /\ view[c] # None
    /\ view' = [view EXCEPT ![c] = None]
    /\ UNCHANGED <<pc, input, frame, reads, result, owned, origin, now>>

\* published_at is a pub field: the owner of a Recipe may assign it.
SetPublishedAt(c) ==
    /\ pc[c] = "idle"
    /\ owned[c] # None
    /\ view[c] = None
    /\ \E p \in Stamps :
        owned' = [owned EXCEPT ![c] = Some(
            [owned[c][1] EXCEPT !.published_at = p])]
    /\ UNCHANGED <<pc, input, frame, reads, result, origin, view, now>>

\* The owner replaces its Recipe by a clone of it.
Clone(c) ==
    /\ pc[c] = "idle"
    /\ owned[c] # None
    /\ owned' = [owned EXCEPT ![c] = Some(Recipe_clone(owned[c][1]))]
    /\ view' = [view EXCEPT ![c] = None]
    /\ UNCHANGED <<pc, input, frame, reads, result, origin, now>>

\* A caller obtains a Recipe by deserializing a document.
Deserialize(c) ==
    /\ pc[c] = "idle"
    /\ owned[c] = None
    /\ \E doc \in Docs :
        owned' = [owned EXCEPT ![c] = Some(Recipe_deserialize(doc))]
    /\ origin' = [origin EXCEPT ![c] = "deserialize"]
    /\ UNCHANGED <<pc, input, frame, reads, result, view, now>>

\* The owned Recipe goes out of scope.
Drop(c) ==
    /\ pc[c] = "idle"
    /\ owned[c] # None
    /\ view[c] = None
    /\ owned' = [owned EXCEPT ![c] = None]
    /\ origin' = [origin EXCEPT ![c] = "none"]
    /\ UNCHANGED <<pc, input, frame, reads, result, view, now>>

\* One caller: construction, then everything the owner of a Recipe can do.
Next ==
    \/ Tick
    \/ \E c \in Solo :
        \/ Call(c, Args)
        \/ ValidateId(c)
        \/ ValidateName(c)
        \/ ValidateTags(c)
        \/ ValidateIngredients(c)
        \/ ValidateInstructions(c)
        \/ Build(c)
        \/ Unwrap(c)
        \/ Discard(c)
        \/ Read(c)
        \/ Release(c)
        \/ SetPublishedAt(c)
        \/ Clone(c)
        \/ Deserialize(c)
        \/ Drop(c)

Spec == Init /\ [][Next]_vars

\* Several callers run Recipe::new at once, their steps interleaved.
NextPar ==
    \/ Tick
    \/ \E c \in Callers :
        \/ Call(c, ParArgs)
        \/ ValidateId(c)
        \/ ValidateName(c)
        \/ ValidateTags(c)
        \/ ValidateIngredients(c)
        \/ ValidateInstructions(c)
        \/ Build(c)
        \/ Discard(c)

SpecPar == Init /\ [][NextPar]_vars

----------------------------------------------------------------------------
(* Properties *)

Returned(c) == pc[c] = "returned"
Failed(c) == Returned(c) /\ ~result[c][1].ok
Succeeded(c) == Returned(c) /\ result[c][1].ok
In(c) == input[c][1]
Res(c) == result[c][1]

Required == {"name", "tags", "ingredients", "instructions"}

\* The first field of a that is empty, in the order name, tags, ingredients,
\* instructions; "none" when no required field is empty.
FirstEmptyField(a) ==
    IF a.name = "" THEN "name"
    ELSE IF Len(a.tags) = 0 THEN "tags"
    ELSE IF Len(a.ingredients) = 0 THEN "ingredients"
    ELSE IF Len(a.instructions) = 0 THEN "instructions"
    ELSE "none"

\* The message the tests expect for each missing field.
FieldMessage(f) ==
    CASE f = "name" -> "A receita precisa ter um nome"
      [] f = "tags" -> "A receita precisa pelo menos de uma tag"
      [] f = "ingredients" -> "A receita precisa pelo menos de um ingrediente"
      [] f = "instructions" -> "A receita precisa pelo menos de uma instrução"

\* What the try_from of field f returns for that field of a.
FieldTryFrom(a, f) ==
    CASE f = "name" -> RecipeName_try_from(a.name)
      [] f = "tags" -> RecipeTags_try_from(a.tags)
      [] f = "ingredients" -> RecipeIngredients_try_from(a.ingredients)
      [] f = "instructions" -> RecipeInstructions_try_from(a.instructions)

AllPresent(a) ==
    /\ a.name # ""
    /\ Len(a.tags) >= 1
    /\ Len(a.ingredients) >= 1
    /\ Len(a.instructions) >= 1

\* C1: whenever Recipe::new fails, the error is the message of the first
\* empty field in the order name, tags, ingredients, instructions, and it is
\* the very error that field's own try_from returned.
C1_FirstErrorReported ==
    \A c \in Callers :
        Failed(c) =>
            LET f == FirstEmptyField(In(c))
            IN  /\ f \in Required
                /\ Res(c).err = FieldMessage(f)
                /\ ~FieldTryFrom(In(c), f).ok
                /\ Res(c).err = FieldTryFrom(In(c), f).err

\* A call with an empty name and no tags has failed with the name message.
C1_Witness ==
    \E c \in Callers :
        /\ Failed(c)
        /\ In(c).name = ""
        /\ In(c).tags = << >>
        /\ Res(c).err = "A receita precisa ter um nome"

\* C2: round trip. When the name and the three lists are not empty, whatever
\* the identifier, Recipe::new returns Ok and name().value(), tags().value(),
\* ingredients().value(), instructions().value() are the inputs, the lists
\* element by element in the same order and of the same length.
C2_RoundTrip ==
    \A c \in Callers :
        (Returned(c) /\ AllPresent(In(c))) =>
            /\ Res(c).ok
            /\ LET r == Res(c).val
                   name == RecipeName_value(Recipe_name(r).ret)
                   tags == RecipeTags_value(Recipe_tags(r).ret)
                   ingredients ==
                       RecipeIngredients_value(Recipe_ingredients(r).ret)
                   instructions ==
                       RecipeInstructions_value(Recipe_instructions(r).ret)
               IN  /\ name = In(c).name
                   /\ Len(tags) = Len(In(c).tags)
                   /\ \A i \in 1..Len(tags) : tags[i] = In(c).tags[i]
                   /\ Len(ingredients) = Len(In(c).ingredients)
                   /\ \A i \in 1..Len(ingredients) :
                          ingredients[i] = In(c).ingredients[i]
                   /\ Len(instructions) = Len(In(c).instructions)
                   /\ \A i \in 1..Len(instructions) :
                          instructions[i] = In(c).instructions[i]

\* A call with the empty identifier and lists of two different elements, in
\* both orders, has succeeded.
C2_Witness ==
    \E c \in Callers :
        /\ Succeeded(c)
        /\ In(c).id = ""
        /\ In(c).tags = <<"", "main">>
        /\ In(c).ingredients = <<"main", "">>
        /\ Len(In(c).instructions) = MaxLen

Valid(r) ==
    /\ r.name.f0 # ""
    /\ Len(r.tags.f0) >= 1
    /\ Len(r.ingredients.f0) >= 1
    /\ Len(r.instructions.f0) >= 1

\* C3: every Recipe that exists, returned by Recipe::new or owned by a caller
\* however it was obtained, has a non-empty name, at least one tag, at least
\* one ingredient and at least one instruction.
C3_NoInvalidRecipe ==
    \A c \in Callers :
        /\ Succeeded(c) => Valid(Res(c).val)
        /\ owned[c] # None => Valid(owned[c][1])

\* C4: when Recipe::new returns Err the caller gets the error string and
\* nothing else: the frame with its parameters and value objects is gone, no
\* Recipe has come into the caller's hands, and the clock has not been read,
\* neither by the failed call nor by a call that is still validating.
C4_FailureIsAtomic ==
    \A c \in Callers :
        /\ Failed(c) =>
            /\ DOMAIN Res(c) = {"ok", "err"}
            /\ frame[c] = None
            /\ owned[c] = None
            /\ view[c] = None
            /\ reads[c] = << >>
        /\ pc[c] \in {"id", "name", "tags", "ingredients", "instructions"} =>
            reads[c] = << >>

\* A call has failed at its last validation, after four value objects had
\* been built.
C4_Witness ==
    \E c \in Callers :
        /\ Failed(c)
        /\ In(c).name # ""
        /\ Len(In(c).tags) >= 1
        /\ Len(In(c).ingredients) >= 1
        /\ In(c).instructions = << >>

ExpectedId(id) == IF id = "" THEN None ELSE Some(id)

\* C5: RecipeId::try_from fails for no string: "" gives the absent identity
\* (value() is None), any other s gives Some(s). So a running Recipe::new
\* always gets past its first statement with that RecipeId, a successful one
\* returns it, and a failed one has an empty required field to blame.
C5_IdNeverFails ==
    /\ \A i \in Ids :
        /\ RecipeId_try_from(i).ok
        /\ RecipeId_value(RecipeId_try_from(i).val) = ExpectedId(i)
    /\ \A c \in Callers :
        /\ pc[c] \in {"name", "tags", "ingredients", "instructions", "build"}
            => frame[c][1].recipe_id = Some(RecipeId(ExpectedId(In(c).id)))
        /\ Succeeded(c) =>
            RecipeId_value(Recipe_id(Res(c).val).ret) = ExpectedId(In(c).id)
        /\ Failed(c) => ~AllPresent(In(c))

\* A call with the empty identifier has succeeded with the absent identity.
C5_Witness ==
    \E c \in Callers :
        /\ Succeeded(c)
        /\ In(c).id = ""
        /\ RecipeId_value(Res(c).val.id) = None

\* What holds of the timestamp at construction: a successful Recipe::new has
\* read the clock once, at the end, and published_at is that reading.
C6_ClockReadOnceAtConstruction ==
    \A c \in Callers :
        /\ Succeeded(c) =>
            /\ Len(reads[c]) = 1
            /\ Res(c).val.published_at = Some(reads[c][1])
        /\ pc[c] \in {"id", "name", "tags", "ingredients", "instructions",
                      "build"} => reads[c] = << >>

\* C6: the publication timestamp is set exactly once, at construction, to the
\* construction time: a successful Recipe::new reads the clock once, after the
\* five validations, and stores the reading as Some; and from then on the
\* timestamp of the constructed Recipe is never changed or cleared.
C6_TimestampSetOnce ==
    [][/\ C6_ClockReadOnceAtConstruction'
       /\ \A c \in Callers :
            (/\ origin[c] = "new" /\ origin'[c] = "new"
             /\ owned[c] # None /\ owned'[c] # None)
            => owned'[c][1].published_at = owned[c][1].published_at]_vars

\* The error messages the five try_from can return, as Recipe::new passes
\* them on.
FailureReasons ==
    {String_from(RecipeId_try_from(i).err) :
        i \in {j \in Ids : ~RecipeId_try_from(j).ok}}
    \cup {String_from(RecipeName_try_from(n).err) :
        n \in {m \in Names : ~RecipeName_try_from(m).ok}}
    \cup {String_from(RecipeTags_try_from(v).err) :
        v \in {w \in Vecs : ~RecipeTags_try_from(w).ok}}
    \cup {String_from(RecipeIngredients_try_from(v).err) :
        v \in {w \in Vecs : ~RecipeIngredients_try_from(w).ok}}
    \cup {String_from(RecipeInstructions_try_from(v).err) :
        v \in {w \in Vecs : ~RecipeInstructions_try_from(w).ok}}

ValidArgs ==
    [id |-> "10", name |-> "Oregano Marinated Chicken", tags |-> <<"main">>,
     ingredients |-> <<"main">>, instructions |-> <<"main">>]

NewOf(a) ==
    Recipe_new(a.id, a.name, a.tags, a.ingredients, a.instructions, 0)

\* What Recipe::new returns when only field f is missing.
ReasonFor(f) ==
    NewOf([ValidArgs EXCEPT ![f] = IF f = "name" THEN "" ELSE << >>])

\* The reasons are four, one for each required field and no two the same, and
\* each is returned for some arguments.
FourDistinctReasons ==
    /\ Cardinality(FailureReasons) = 4
    /\ \A f \in Required : ~ReasonFor(f).ok
    /\ FailureReasons = {ReasonFor(f).err : f \in Required}
    /\ \A f, g \in Required : f # g => ReasonFor(f).err # ReasonFor(g).err
    /\ \A m \in FailureReasons :
          \E a \in Args : ~NewOf(a).ok /\ NewOf(a).err = m

\* C7, as amended: the failure reasons of Recipe::new are exactly four fixed
\* messages (missing name, tags, ingredients, instructions; the identifier
\* has none), pairwise distinct, one for each required field; a failed call
\* returns one of them and each is returned for some input.
C7_FourReasons ==
    /\ FourDistinctReasons
    /\ \A c \in Callers : Failed(c) => Res(c).err \in FailureReasons

\* A call has failed with the last of the four reasons.
C7_Witness ==
    \E c \in Callers :
        /\ Failed(c)
        /\ Res(c).err = "A receita precisa pelo menos de uma instrução"
        /\ Res(c).err \in FailureReasons

\* C7, as stated: a failed call returns one of exactly five fixed messages.
C7_FiveReasons ==
    \A c \in Callers :
        Failed(c) =>
            /\ Res(c).err \in FailureReasons
            /\ Cardinality(FailureReasons) = 5

\* C8: accessor calls never change a Recipe, and calling the same accessor
\* again returns the same value. Whenever a step leaves a borrow that an
\* accessor returned, the step has changed no field of the Recipe, and the
\* same accessor called once more returns an equal value object with an equal
\* value() and again leaves the Recipe as it is.
C8_AccessorsDoNotMutate ==
    [][\A c \in Callers :
        view'[c] # None =>
            /\ owned'[c] = owned[c]
            /\ LET v == view'[c][1]
                   again == Accessor(owned'[c][1], v.field)
               IN  /\ again.self = owned'[c][1]
                   /\ again.ret = v.obj
                   /\ Value(again.ret, v.field) = v.val]_vars

\* The owner of a Recipe made by Recipe::new holds what tags() returned.
C8_Witness ==
    \E c \in Callers :
        /\ origin[c] = "new"
        /\ view[c] # None
        /\ view[c][1].field = "tags"
        /\ Len(view[c][1].val) = MaxLen

\* C9: each of the concurrent calls returns what Recipe::new returns on its
\* own arguments when run alone: the same Ok or Err, the same five field
\* values or the same message; and a running call holds no argument but its
\* own.
C9_ConcurrentIndependent ==
    \A c \in Callers :
        /\ frame[c] # None =>
            \A f \in Fields :
                frame[c][1][f] # None => frame[c][1][f][1] = In(c)[f]
        /\ Returned(c) =>
            LET alone == NewOf(In(c))
            IN  /\ Res(c).ok = alone.ok
                /\ Res(c).ok =>
                    \A f \in Fields : Res(c).val[f] = alone.val[f]
                /\ ~Res(c).ok => Res(c).err = alone.err

\* Two calls with different arguments have both returned, one Ok, one Err.
C9_Witness ==
    \E c, d \in Callers :
        /\ c # d
        /\ Succeeded(c)
        /\ Failed(d)

\* C10: Recipe::new succeeds exactly when the name is not empty and each of
\* the three lists has an element; what the elements are is not looked at,
\* and the lists are stored as given, empty strings included.
C10_OnlyOuterEmptiness ==
    \A c \in Callers :
        Returned(c) =>
            /\ Res(c).ok <=> AllPresent(In(c))
            /\ Res(c).ok =>
                /\ Res(c).val.name.f0 = In(c).name
                /\ Res(c).val.tags.f0 = In(c).tags
                /\ Res(c).val.ingredients.f0 = In(c).ingredients
                /\ Res(c).val.instructions.f0 = In(c).instructions

\* A call whose three lists hold one empty string each has succeeded.
C10_Witness ==
    \E c \in Callers :
        /\ Succeeded(c)
        /\ In(c).tags = <<"">>
        /\ In(c).ingredients = <<"">>
        /\ In(c).instructions = <<"">>
        /\ Res(c).val.tags.f0 = <<"">>

====
